---- MODULE Spec2Model ----
(***************************************************************************)
(* Model of src/main.py (sitemap generator): one job handled by            *)
(* generate_sitemap, i.e. request validation, check_robots_txt, the        *)
(* recursive traversal get_internal_links and the sitemap write.           *)
(*                                                                         *)
(* A URL string is modelled as the sequence of its pieces,                 *)
(*   <<scheme, netloc, path piece, ..., query piece>>,                     *)
(* cut so that a file extension and a query string are pieces of their     *)
(* own: "https://a.test/doc.pdf?v=1" is                                    *)
(* <<"https", "a.test", "/doc", ".pdf", "?v=1">>.  str.endswith(ext) is    *)
(* then a test on the last piece of the whole string, and urlparse().path  *)
(* is the run of pieces between the netloc and the query.                  *)
(*                                                                         *)
(* Time is counted in seconds.  Only time.sleep takes time; a request and   *)
(* every other statement are counted as instantaneous, so a gap measured   *)
(* here is the least time the code lets pass between two requests.         *)
(***************************************************************************)
EXTENDS Integers, Sequences, FiniteSets, TLC

\* ---------------------------------------------------------------- constants
CRAWL_DELAY == 2
MAX_PAGES_LIMIT == 500

\* ------------------------------------------------------------------- bounds
\* longest list of anchors on the seed page
MaxLinks == 2
\* largest max_pages a request asks for (besides one above MAX_PAGES_LIMIT)
MaxPages == 4
\* deepest recursion explored; the code's recursion never gets this deep
\* over the URLs below (a frame is only pushed for a URL new to visited)
MaxDepth == 6
\* longest netloc tried for the output file's name, in characters
MaxHostLen == 3

\* -------------------------------------------------------------- the inputs
SeedUrl == <<"https", "a.test", "/">>

\* href attributes as they stand in the pages (absolute or path-absolute)
hrefSeed == <<"https", "a.test", "/">>
hrefB == <<"/b">>
hrefC == <<"/c">>
hrefOther == <<"https", "other.test", "/">>
hrefPdf == <<"/doc", ".pdf">>
hrefPdfQuery == <<"/doc", ".pdf", "?v=1">>

Hrefs == {hrefSeed, hrefB, hrefC, hrefOther, hrefPdf, hrefPdfQuery}

\* crawl-delay values robots.txt may advertise for "*"; -1 stands for None
AdvertisedDelays == {-1, 0, 3}

RECURSIVE SeqsUpTo(_, _)
SeqsUpTo(S, n) ==
  IF n = 0 THEN {<<>>}
  ELSE LET shorter == SeqsUpTo(S, n - 1)
       IN shorter \cup {Append(s, x) : s \in shorter, x \in S}

\* ---------------------------------------------------- urllib.parse, str ops
KnownSchemes == {"http", "https", "ftp", "mailto"}

IsQueryPiece(t) == t \in {"?v=1", "#top"}

RECURSIVE PathOf(_)
PathOf(s) ==
  IF s = <<>> \/ IsQueryPiece(Head(s)) THEN <<>>
  ELSE <<Head(s)>> \o PathOf(Tail(s))

urlparse(u) ==
  [scheme |-> u[1], netloc |-> u[2], path |-> PathOf(SubSeq(u, 3, Len(u)))]

urljoin(base, ref) ==
  IF ref # <<>> /\ ref[1] \in KnownSchemes THEN ref
  ELSE <<base[1], base[2]>> \o ref

endswith(s, suffix) == Len(s) > 0 /\ s[Len(s)] = suffix

DenylistExt ==
  {".pdf", ".jpg", ".jpeg", ".png", ".gif", ".css", ".js",
   ".zip", ".tar", ".gz", ".doc", ".docx", ".xls", ".xlsx"}

\* every URL a page of the model can link to, resolved
AllUrls == {urljoin(SeedUrl, h) : h \in Hrefs}

\* the link graphs tried: any anchors on the seed page, and one list of at
\* most one anchor shared by the other pages of the seed's host; pages that
\* the traversal is not meant to fetch carry no anchors
Sites ==
  {[u \in AllUrls |->
      IF u = SeedUrl THEN l1
      ELSE IF urlparse(u).netloc = urlparse(SeedUrl).netloc
                /\ ~endswith(u, ".pdf") THEN l2
      ELSE <<>>] :
   l1 \in SeqsUpTo(Hrefs, MaxLinks), l2 \in SeqsUpTo(Hrefs, 1)}

MaxPagesChoices == (0 .. MaxPages) \cup {MAX_PAGES_LIMIT + 1}

\* characters of the netloc of SeedUrl, for str.replace
SeedHost == <<"a", ".", "t", "e", "s", "t">>

NoRobots == [status |-> "unread", allows |-> TRUE, advertised |-> -1]

NoResult == [url_count |-> -1, crawl_delay_used |-> -1, file_path |-> <<>>]

VARIABLES
  pc,          \* where generate_sitemap is: start, robots (inside
               \* check_robots_txt, after rp.read()), crawl, done,
               \* rejected400, rejected403, failed (an exception left
               \* get_internal_links)
  site,        \* the web: resolved URL -> href attributes of its anchors
  max_pages,   \* request.max_pages
  robots,      \* rp inside check_robots_txt: [status, allows, advertised]
  can_fetch,   \* check_robots_txt's first result
  crawl_delay, \* check_robots_txt's second result
  visited,     \* the set handed through get_internal_links
  aliased,     \* visited is the default-argument object of line 40
  default_visited, \* the default-argument object of line 40
  stack,       \* frames of get_internal_links, innermost last
  fetchLog,    \* requests.get calls issued so far: [url, outcome, slept]
  found,       \* the "Found:" lines printed so far: [url, parent]
  sinceFetch,  \* seconds since the latest requests.get started
  lastGap,     \* seconds between the starts of the latest two requests.get
  host,        \* characters of domain (parsed_url.netloc)
  output_file, \* output_file of generate_sitemap, as pieces
  sitemap,     \* [written, urls]: the file tree.write produced for this job
  result,      \* the dictionary generate_sitemap returns
  earlier      \* URLs that were in the visited set of earlier jobs

jobState == <<aliased, default_visited, earlier>>

vars == <<pc, site, max_pages, robots, can_fetch, crawl_delay, visited,
          aliased, default_visited, stack, fetchLog, found, sinceFetch,
          lastGap, host, output_file, sitemap, result, earlier>>

Init ==
  /\ pc = "start"
  /\ site \in Sites
  /\ max_pages \in MaxPagesChoices
  /\ robots = NoRobots
  /\ can_fetch = TRUE
  /\ crawl_delay = CRAWL_DELAY
  /\ visited = {}
  /\ aliased = FALSE
  /\ default_visited = {}
  /\ stack = <<>>
  /\ fetchLog = <<>>
  /\ found = <<>>
  /\ sinceFetch = 0
  /\ lastGap = -1
  /\ host = SeedHost
  /\ output_file = <<>>
  /\ sitemap = [written |-> FALSE, urls |-> {}]
  /\ result = NoResult
  /\ earlier = {}

\* ------------------------------------------------------ check_robots_txt
\* rp.crawl_delay("*") or CRAWL_DELAY
DelayOr(advertised) ==
  IF advertised = -1 \/ advertised = 0 THEN CRAWL_DELAY ELSE advertised

RobotsResultFailClosed(rp) ==
  IF rp.status = "error"
    THEN [allowed |-> FALSE, delay |-> CRAWL_DELAY]
    ELSE [allowed |-> rp.allows, delay |-> DelayOr(rp.advertised)]

\* what check_robots_txt returns: the try branch, or the except branch
RobotsResult(rp) ==
  IF rp.status = "error"
    THEN [allowed |-> TRUE, delay |-> CRAWL_DELAY]
    ELSE [allowed |-> rp.allows, delay |-> DelayOr(rp.advertised)]

\* ------------------------------------------------------- generate_sitemap
ExceedsLimitNever(n) == FALSE

ExceedsLimit(n) == n > MAX_PAGES_LIMIT

ForbiddenIgnored(allowed) == FALSE

Forbidden(allowed) == ~allowed

Frame(u) == [url |-> u, phase |-> "enter", links |-> <<>>]

\* str.replace(old, new) on a string of single characters
replace(s, old, new) == [i \in DOMAIN s |-> IF s[i] = old THEN new ELSE s[i]]

\* f"sitemaps/sitemap_{domain.replace('.', '_')}.xml"
OutputFile(h) == <<"sitemaps/sitemap_">> \o replace(h, ".", "_") \o <<".xml">>

VisitedArgumentShared(url, dflt) == [set |-> dflt \cup {url}, shared |-> TRUE]

\* the visited argument of the call at lines 108-113: a new set
VisitedArgument(url, dflt) == [set |-> {url}, shared |-> FALSE]

\* the rest of generate_sitemap once check_robots_txt has returned
AfterRobots(allowed, delay) ==
  /\ can_fetch' = allowed
  /\ crawl_delay' = delay
  /\ IF Forbidden(allowed)
       THEN /\ pc' = "rejected403"
            /\ UNCHANGED <<visited, stack, aliased, output_file>>
       ELSE /\ pc' = "crawl"
            /\ output_file' = OutputFile(host)
            /\ visited' = VisitedArgument(SeedUrl, default_visited).set
            /\ aliased' = VisitedArgument(SeedUrl, default_visited).shared
            /\ stack' = <<Frame(SeedUrl)>>
  /\ UNCHANGED <<site, max_pages, fetchLog, sinceFetch, lastGap, sitemap>>
  /\ UNCHANGED <<default_visited, earlier, found, host, result>>

RejectLimit ==
  /\ pc = "start"
  /\ ExceedsLimit(max_pages)
  /\ pc' = "rejected400"
  /\ UNCHANGED <<site, max_pages, can_fetch, crawl_delay, visited, stack,
                 fetchLog, sinceFetch, lastGap, sitemap>>
  /\ UNCHANGED <<jobState, robots, found, host, output_file, result>>

\* check_robots_txt is entered and rp.read() has run
RobotsEntered(rp) ==
  /\ pc = "start"
  /\ ~ExceedsLimit(max_pages)
  /\ pc' = "robots"
  /\ robots' = rp
  /\ UNCHANGED <<site, max_pages, can_fetch, crawl_delay, visited, stack,
                 fetchLog, sinceFetch, lastGap, sitemap>>
  /\ UNCHANGED <<jobState, found, host, output_file, result>>

RobotsRead ==
  \E allowed \in BOOLEAN, advertised \in AdvertisedDelays :
    RobotsEntered([status |-> "ok", allows |-> allowed,
                   advertised |-> advertised])

RobotsError ==
  RobotsEntered([status |-> "error", allows |-> TRUE, advertised |-> -1])

\* check_robots_txt returns, rp is dropped, generate_sitemap goes on
RobotsReturn ==
  /\ pc = "robots"
  /\ robots' = NoRobots
  /\ AfterRobots(RobotsResult(robots).allowed, RobotsResult(robots).delay)

\* ----------------------------------------------------- get_internal_links
Top == stack[Len(stack)]

Pop(stk) == SubSeq(stk, 1, Len(stk) - 1)

SetTop(stk, f) == [stk EXCEPT ![Len(stk)] = f]

CallDeferred(stk, f) == <<f>> \o stk

\* the recursive call of line 76: the new frame runs first
Call(stk, f) == Append(stk, f)

LimitReachedOffByOne(vis, limit) == Cardinality(vis) > limit

LimitReached(vis, limit) == Cardinality(vis) >= limit

KeepLinkAnyDomain(href, base_domain, vis) ==
  /\ urlparse(href).scheme \in {"http", "https"}
  /\ href \notin vis
  /\ ~\E ext \in DenylistExt : endswith(href, ext)

KeepLinkRevisit(href, base_domain, vis) ==
  /\ urlparse(href).netloc = base_domain
  /\ urlparse(href).scheme \in {"http", "https"}
  /\ ~\E ext \in DenylistExt : endswith(href, ext)

KeepLink(href, base_domain, vis) ==
  /\ urlparse(href).netloc = base_domain
  /\ urlparse(href).scheme \in {"http", "https"}
  /\ href \notin vis
  /\ ~\E ext \in DenylistExt : endswith(href, ext)

\* an exception raised by requests.get or raise_for_status in the frame on
\* top of stk: where control goes, and the frames left
CatchPropagates(stk) == [pc |-> "failed", stack |-> <<>>]

Catch(stk) == [pc |-> "crawl", stack |-> Pop(stk)]

NonHtmlParsed(stk, body) ==
  SetTop(stk, [url |-> stk[Len(stk)].url, phase |-> "loop", links |-> body])

\* the frames left by the return of line 56; body is response.text
NonHtmlReturn(stk, body) == Pop(stk)

InFrame(phase) ==
  /\ pc = "crawl"
  /\ stack # <<>>
  /\ Top.phase = phase

EarlyReturn ==
  /\ InFrame("enter")
  /\ LimitReached(visited, max_pages)
  /\ stack' = Pop(stack)
  /\ UNCHANGED <<pc, site, max_pages, can_fetch, crawl_delay, visited,
                 fetchLog, sinceFetch, lastGap, sitemap>>
  /\ UNCHANGED <<jobState, robots, found, host, output_file, result>>

\* requests.get is called: common part of the outcomes
Request(outcome, slept) ==
  /\ InFrame("enter")
  /\ ~LimitReached(visited, max_pages)
  /\ fetchLog' = Append(fetchLog, [url |-> Top.url, outcome |-> outcome,
                                   slept |-> slept])
  /\ lastGap' = IF fetchLog = <<>> THEN -1 ELSE sinceFetch
  /\ sinceFetch' = slept
  /\ UNCHANGED <<site, max_pages, can_fetch, crawl_delay, visited, sitemap>>
  /\ UNCHANGED <<jobState, robots, found, host, output_file, result>>

FetchHtml ==
  /\ Request("html", CRAWL_DELAY)
  /\ stack' = SetTop(stack, [url |-> Top.url, phase |-> "loop",
                             links |-> site[Top.url]])
  /\ pc' = pc

FetchNonHtml ==
  /\ Request("nonhtml", 0)
  /\ stack' = NonHtmlReturn(stack, site[Top.url])
  /\ pc' = pc

\* requests.get raises (connection error, timeout) or raise_for_status
\* raises (non-2xx status): both reach the except clause of the frame
FetchError ==
  /\ Request("error", 0)
  /\ stack' = Catch(stack).stack
  /\ pc' = Catch(stack).pc

NextHref == urljoin(Top.url, Head(Top.links))

Advanced == [url |-> Top.url, phase |-> "loop", links |-> Tail(Top.links)]

FollowLink ==
  /\ InFrame("loop")
  /\ Top.links # <<>>
  /\ KeepLink(NextHref, urlparse(SeedUrl).netloc, visited)
  /\ Len(stack) < MaxDepth
  /\ visited' = visited \cup {NextHref}
  /\ found' = Append(found, [url |-> NextHref, parent |-> Top.url])
  /\ stack' = Call(SetTop(stack, Advanced), Frame(NextHref))
  /\ UNCHANGED <<pc, site, max_pages, can_fetch, crawl_delay, fetchLog,
                 sinceFetch, lastGap, sitemap>>
  /\ UNCHANGED <<jobState, robots, host, output_file, result>>

SkipLink ==
  /\ InFrame("loop")
  /\ Top.links # <<>>
  /\ ~KeepLink(NextHref, urlparse(SeedUrl).netloc, visited)
  /\ stack' = SetTop(stack, Advanced)
  /\ UNCHANGED <<pc, site, max_pages, can_fetch, crawl_delay, visited,
                 fetchLog, sinceFetch, lastGap, sitemap>>
  /\ UNCHANGED <<jobState, robots, found, host, output_file, result>>

Return ==
  /\ InFrame("loop")
  /\ Top.links = <<>>
  /\ stack' = Pop(stack)
  /\ UNCHANGED <<pc, site, max_pages, can_fetch, crawl_delay, visited,
                 fetchLog, sinceFetch, lastGap, sitemap>>
  /\ UNCHANGED <<jobState, robots, found, host, output_file, result>>

ResultLinksHtmlOnly(vis, log) ==
  {log[i].url : i \in {j \in DOMAIN log : log[j].outcome = "html"}}

\* links of generate_sitemap: what get_internal_links returned
ResultLinks(vis, log) == vis

\* get_internal_links has returned to generate_sitemap
WriteSitemap ==
  /\ pc = "crawl"
  /\ stack = <<>>
  /\ sitemap' = [written |-> TRUE, urls |-> ResultLinks(visited, fetchLog)]
  /\ result' = [url_count |-> Cardinality(ResultLinks(visited, fetchLog)),
                crawl_delay_used |-> crawl_delay,
                file_path |-> output_file]
  /\ pc' = "done"
  /\ UNCHANGED <<site, max_pages, can_fetch, crawl_delay, visited, stack,
                 fetchLog, sinceFetch, lastGap>>
  /\ UNCHANGED <<jobState, robots, found, host, output_file>>

Next ==
  \/ RejectLimit
  \/ RobotsRead
  \/ RobotsError
  \/ RobotsReturn
  \/ EarlyReturn
  \/ FetchHtml
  \/ FetchNonHtml
  \/ FetchError
  \/ FollowLink
  \/ SkipLink
  \/ Return
  \/ WriteSitemap

Spec == Init /\ [][Next]_vars

\* the interpreter runs the job to its end: no step waits on anything
FairSpec == Spec /\ WF_vars(Next)

\* --------------------------------------------------- one job after another
\* the server takes the next request once the handler has returned or
\* raised; the locals of the finished call are gone, the default-argument
\* object of get_internal_links and the web stay
NextJob ==
  /\ pc \in {"done", "rejected400", "rejected403"}
  /\ pc' = "start"
  /\ max_pages' \in MaxPagesChoices
  /\ default_visited' = IF aliased THEN visited ELSE default_visited
  /\ earlier' = earlier \cup visited
  /\ robots' = NoRobots
  /\ can_fetch' = TRUE
  /\ crawl_delay' = CRAWL_DELAY
  /\ visited' = {}
  /\ aliased' = FALSE
  /\ stack' = <<>>
  /\ fetchLog' = <<>>
  /\ found' = <<>>
  /\ sinceFetch' = 0
  /\ lastGap' = -1
  /\ output_file' = <<>>
  /\ sitemap' = [written |-> FALSE, urls |-> {}]
  /\ result' = NoResult
  /\ UNCHANGED <<site, host>>

\* jobs against sites whose seed page alone carries anchors
JobsInit ==
  /\ Init
  /\ \A u \in AllUrls \ {SeedUrl} : site[u] = <<>>

JobsNext ==
  \/ RejectLimit
  \/ RobotsRead
  \/ RobotsError
  \/ RobotsReturn
  \/ EarlyReturn
  \/ FetchHtml
  \/ FetchNonHtml
  \/ FetchError
  \/ FollowLink
  \/ SkipLink
  \/ Return
  \/ WriteSitemap
  \/ NextJob

JobsSpec == JobsInit /\ [][JobsNext]_vars

\* ------------------------------------------------ the output file's name
\* characters a netloc is made of here: a letter, a digit, and the three
\* separators (dot, hyphen, the colon before a port)
HostChars == {"a", "7", ".", "-", ":"}

Hosts == SeqsUpTo(HostChars, MaxHostLen) \ {<<>>}

NameInit ==
  /\ pc = "naming"
  /\ host \in Hosts
  /\ site \in {[u \in AllUrls |-> <<>>]}
  /\ max_pages = 1
  /\ robots = NoRobots
  /\ can_fetch = TRUE
  /\ crawl_delay = CRAWL_DELAY
  /\ visited = {}
  /\ aliased = FALSE
  /\ default_visited = {}
  /\ stack = <<>>
  /\ fetchLog = <<>>
  /\ found = <<>>
  /\ sinceFetch = 0
  /\ lastGap = -1
  /\ output_file = <<>>
  /\ sitemap = [written |-> FALSE, urls |-> {}]
  /\ result = NoResult
  /\ earlier = {}

\* line 105 applied to the host drawn
NameOutput ==
  /\ pc = "naming"
  /\ pc' = "named"
  /\ output_file' = OutputFile(host)
  /\ UNCHANGED <<site, max_pages, robots, can_fetch, crawl_delay, visited,
                 aliased, default_visited, stack, fetchLog, found,
                 sinceFetch, lastGap, host, sitemap, result, earlier>>

NameNext == NameOutput

NameSpec == NameInit /\ [][NameNext]_vars

TypeOK ==
  /\ pc \in {"start", "robots", "crawl", "done", "rejected400", "rejected403",
            "failed", "naming", "named"}
  /\ visited \subseteq AllUrls
  /\ Len(stack) < MaxDepth

\* ------------------------------------------------------------ the claims
Range(s) == {s[i] : i \in DOMAIN s}

domain == urlparse(SeedUrl).netloc

urlB == urljoin(SeedUrl, hrefB)
urlC == urljoin(SeedUrl, hrefC)
urlPdf == urljoin(SeedUrl, hrefPdf)
urlPdfQuery == urljoin(SeedUrl, hrefPdfQuery)
urlOther == urljoin(SeedUrl, hrefOther)

Crawling == pc \in {"crawl", "done"}

FetchedUrls == {fetchLog[i].url : i \in DOMAIN fetchLog}

HtmlPages == {fetchLog[i].url : i \in {j \in DOMAIN fetchLog : fetchLog[j].outcome = "html"}}

FailedUrls ==
  {fetchLog[i].url : i \in {j \in DOMAIN fetchLog : fetchLog[j].outcome = "error"}}

\* the URLs the anchors of page u resolve to
LinksOf(u) == {urljoin(u, h) : h \in Range(site[u])}

\* the path of u (urlparse(u).path) ends in a denylisted extension
HasDenylistedPath(u) == \E ext \in DenylistExt : endswith(urlparse(u).path, ext)

\* C1: during a crawl the visited set never holds more URLs than max_pages,
\* the result set has at most max_pages URLs, and with max_pages = 1 the
\* result set is exactly the seed.  Stated for the requests the interface
\* admits (max_pages >= 1).
C1_VisitedWithinLimit ==
  (Crawling /\ max_pages >= 1) =>
    /\ Cardinality(visited) <= max_pages
    /\ sitemap.written => Cardinality(sitemap.urls) <= max_pages
    /\ (sitemap.written /\ max_pages = 1) => sitemap.urls = {SeedUrl}

\* C2: whatever the outcome of the earlier fetch, two consecutive page
\* fetches of a crawl start at least crawl_delay seconds apart, crawl_delay
\* being the delay check_robots_txt returned.
C2_FetchGapAtLeastDelay ==
  lastGap # -1 => lastGap >= crawl_delay

\* C3: a URL whose path ends in a denylisted extension, with or without a
\* query string after the path, is never in the visited set nor in the
\* result set.
C3_NoDenylistedPath ==
  \A u \in visited \cup sitemap.urls : ~HasDenylistedPath(u)

\* C4: every URL in the visited set, in the result set and every URL fetched
\* has the netloc of the seed URL.
C4_SameHost ==
  \A u \in visited \cup sitemap.urls \cup FetchedUrls :
    urlparse(u).netloc = urlparse(SeedUrl).netloc

\* the seed page was parsed and one of its anchors leads to another host
C4_Witness ==
  /\ pc = "done"
  /\ SeedUrl \in HtmlPages
  /\ hrefOther \in Range(site[SeedUrl])
  /\ Cardinality(sitemap.urls) >= 2

\* C5: when check_robots_txt reports the seed as disallowed, the job is
\* rejected with 403, no page is ever fetched, the traversal is never
\* entered and no sitemap is written.
C5_DisallowedNeverCrawls ==
  (pc # "start" /\ ~can_fetch) =>
    /\ pc = "rejected403"
    /\ fetchLog = <<>>
    /\ stack = <<>>
    /\ visited = {}
    /\ ~sitemap.written

C5_Witness ==
  /\ pc = "rejected403"
  /\ ~can_fetch
  /\ site[SeedUrl] # <<>>

\* C6: no URL is fetched twice in a crawl: the fetch log names no URL twice,
\* every URL with a frame (scheduled or being processed) is already in the
\* visited set, no URL has two frames, and a URL that was fetched (failed
\* or not) has no frame waiting to fetch it again.
C6_NoRefetch ==
  /\ \A i, j \in DOMAIN fetchLog : fetchLog[i].url = fetchLog[j].url => i = j
  /\ \A i \in DOMAIN stack : stack[i].url \in visited
  /\ \A i, j \in DOMAIN stack : stack[i].url = stack[j].url => i = j
  /\ \A i \in DOMAIN stack : stack[i].phase = "enter" => stack[i].url \notin FetchedUrls
  /\ FetchedUrls \subseteq visited

\* the fetch of /b failed, and a page parsed after that links to /b, to
\* itself and back to the seed
C6_Witness ==
  /\ pc = "done"
  /\ urlB \in FailedUrls
  /\ \E u \in HtmlPages \ {SeedUrl} : {urlB, u, SeedUrl} \subseteq LinksOf(u) \cup LinksOf(SeedUrl)
  /\ \E u \in HtmlPages \ {SeedUrl} : LinksOf(u) \cap {urlB, u, SeedUrl} # {}

\* the URLs reachable from the seed over anchors that lead to the seed's
\* host, with an http(s) scheme and a path that does not end in a
\* denylisted extension
RECURSIVE ReachableFrom(_)
ReachableFrom(S) ==
  LET more == S \cup {v \in UNION {LinksOf(u) : u \in S} :
                        /\ urlparse(v).netloc = urlparse(SeedUrl).netloc
                        /\ urlparse(v).scheme \in {"http", "https"}
                        /\ ~HasDenylistedPath(v)}
  IN IF more = S THEN S ELSE ReachableFrom(more)

Reachable == ReachableFrom({SeedUrl})

AllFetchesHtml == \A i \in DOMAIN fetchLog : fetchLog[i].outcome = "html"

\* C7: when every fetch answers HTML and at most max_pages URLs are
\* reachable from the seed, the result set is exactly the reachable set.
C7_ResultIsReachable ==
  (pc = "done" /\ AllFetchesHtml /\ Cardinality(Reachable) <= max_pages) =>
    sitemap.urls = Reachable

LimitHit == Crawling /\ Cardinality(visited) >= max_pages

\* C9: once the visited set has reached max_pages, it stays so and no step
\* of the crawl issues a fetch.
C9_NoFetchAfterLimit ==
  [][LimitHit => (LimitHit' /\ fetchLog' = fetchLog)]_vars

\* the limit is reached while frames are still waiting to fetch
C9_Witness ==
  /\ LimitHit
  /\ max_pages >= 2
  /\ Len(stack) >= 2
  /\ Top.phase = "enter"

\* C10: a failed fetch never leaves get_internal_links as an exception, the
\* frames below the failed one stay in place, and when the job is done every
\* anchor of every parsed page that passes the domain, scheme and extension
\* tests is in the result set, the anchors after a failed one included.
C10_FailureAbsorbed ==
  /\ [](pc # "failed")
  /\ [](pc = "done" =>
          /\ sitemap.written
          /\ \A u \in HtmlPages : \A v \in LinksOf(u) :
               KeepLink(v, domain, {}) => v \in sitemap.urls)
  /\ [][(/\ Len(fetchLog') > Len(fetchLog)
         /\ fetchLog'[Len(fetchLog')].outcome = "error") =>
          /\ pc' = "crawl"
          /\ stack' = Pop(stack)
          /\ visited' = visited]_vars

\* the fetch of /b failed and /c, the anchor after it on the seed page, is
\* in the result
C10_Witness ==
  /\ pc = "done"
  /\ site[SeedUrl] = <<hrefB, hrefC>>
  /\ urlB \in FailedUrls
  /\ urlC \in sitemap.urls

\* C11: crawls share no state.  In every job the traversal starts from the
\* set {seed} whatever earlier jobs have visited, the default-argument set
\* is never written, and every URL of the visited set and of the result is
\* the seed or an anchor of a page this job fetched and parsed.
C11_NoSharedState ==
  /\ default_visited = {}
  /\ ~aliased
  /\ (pc = "crawl" /\ fetchLog = <<>>) => visited = {SeedUrl}
  /\ Crawling =>
       visited \cup sitemap.urls
         \subseteq {SeedUrl} \cup UNION {LinksOf(u) : u \in HtmlPages}

\* earlier jobs visited /b and /c, more URLs than this job's max_pages; this
\* job still fetched its seed, the fetch failed, and the result is the seed
C11_Witness ==
  /\ pc = "done"
  /\ {urlB, urlC} \subseteq earlier
  /\ max_pages = 2
  /\ fetchLog # <<>>
  /\ sitemap.urls = {SeedUrl}

\* C12: a request whose max_pages exceeds MAX_PAGES_LIMIT is rejected with
\* 400 as the first step of the job, and robots.txt is never read, no page
\* is fetched, the traversal is never entered and no sitemap is written.
C12_LimitRejected ==
  /\ [](max_pages > MAX_PAGES_LIMIT =>
          /\ pc \in {"start", "rejected400"}
          /\ robots = NoRobots
          /\ fetchLog = <<>>
          /\ visited = {}
          /\ output_file = <<>>
          /\ ~sitemap.written)
  /\ [][(max_pages > MAX_PAGES_LIMIT /\ pc = "start") => pc' = "rejected400"]_vars

C12_Witness ==
  /\ pc = "rejected400"
  /\ max_pages = MAX_PAGES_LIMIT + 1
  /\ site[SeedUrl] # <<>>

\* C13: when reading robots.txt raises, check_robots_txt returns
\* (True, CRAWL_DELAY) and the job goes on to the traversal of the seed; no
\* job ends with an exception, and a 403 is only raised when
\* check_robots_txt returned disallowed.
C13_RobotsFailOpen ==
  /\ [][(pc = "robots" /\ robots.status = "error") =>
          /\ can_fetch'
          /\ crawl_delay' = CRAWL_DELAY
          /\ pc' = "crawl"
          /\ stack' = <<Frame(SeedUrl)>>]_vars
  /\ [](pc # "failed" /\ (pc = "rejected403" => ~can_fetch))

\* rp.read() has raised inside check_robots_txt
C13_Witness ==
  /\ pc = "robots"
  /\ robots.status = "error"
  /\ max_pages >= 2

NonHtmlUrls ==
  {fetchLog[i].url : i \in {j \in DOMAIN fetchLog : fetchLog[j].outcome = "nonhtml"}}

\* C14: a fetch answered with a non-HTML content type leaves the visited
\* set as it is and returns to the frame below; no URL is ever found on a
\* page that was not parsed as HTML; and when the job is done the non-HTML
\* URL is in the result, as are the anchors of the parsed pages that pass
\* the domain, scheme and extension tests.
C14_NonHtmlCounted ==
  /\ [][(/\ Len(fetchLog') > Len(fetchLog)
         /\ fetchLog'[Len(fetchLog')].outcome = "nonhtml") =>
          /\ pc' = "crawl"
          /\ visited' = visited
          /\ found' = found
          /\ stack' = Pop(stack)]_vars
  /\ [](\A i \in DOMAIN found : found[i].parent \in HtmlPages)
  /\ [](pc = "done" =>
          /\ NonHtmlUrls \subseteq sitemap.urls
          /\ \A v \in sitemap.urls \ {SeedUrl} : \E u \in HtmlPages : v \in LinksOf(u)
          /\ \A u \in HtmlPages : \A v \in LinksOf(u) :
               KeepLink(v, domain, {}) => v \in sitemap.urls)

\* /b answered non-HTML: it is in the result, an anchor that only its body
\* carries is not, and /c, the next anchor of the seed page, is
C14_Witness ==
  /\ pc = "done"
  /\ site[SeedUrl] = <<hrefB, hrefC>>
  /\ urlB \in NonHtmlUrls
  /\ urlB \in sitemap.urls
  /\ urlC \in sitemap.urls
  /\ \E v \in LinksOf(urlB) : KeepLink(v, domain, {}) /\ v \notin sitemap.urls

FoundUrls == {found[i].url : i \in DOMAIN found}

\* C15: during a crawl every step leaves the visited set a superset of what
\* it was, and when the job is done the result is the visited set: the
\* seed, every URL found and every URL fetched are in it.
C15_VisitedGrows ==
  /\ [][(Crawling /\ Crawling') => visited \subseteq visited']_vars
  /\ [](Crawling => ({SeedUrl} \cup FoundUrls \cup FetchedUrls) \subseteq visited)
  /\ [](pc = "done" =>
          /\ sitemap.urls = visited
          /\ result.url_count = Cardinality(visited)
          /\ ({SeedUrl} \cup FoundUrls \cup FetchedUrls) \subseteq sitemap.urls)

\* the result holds a URL whose fetch failed and a URL that was never fetched
C15_Witness ==
  /\ pc = "done"
  /\ FailedUrls # {}
  /\ sitemap.urls \ FetchedUrls # {}

\* C16: the delay reported in the job result, crawl_delay_used, is the time
\* the traversal slept after each page it parsed.
C16_ReportedDelayIsUsed ==
  pc = "done" =>
    \A i \in DOMAIN fetchLog :
      fetchLog[i].outcome = "html" => fetchLog[i].slept = result.crawl_delay_used

IsAlphanumeric(c) == c \in {"a", "7"}

\* C17: in the output file's name, between "sitemaps/sitemap_" and ".xml",
\* there is one character for each character of the host, and each is
\* alphanumeric or the replacement character "_".
C17_FileNameSanitised ==
  pc = "named" =>
    /\ Len(output_file) = Len(host) + 2
    /\ \A i \in 2 .. (Len(output_file) - 1) :
         IsAlphanumeric(output_file[i]) \/ output_file[i] = "_"

\* C18: when robots.txt was read, check_robots_txt returns the crawl delay
\* it advertises for "*" whenever there is one, 0 included, and CRAWL_DELAY
\* only when there is none.
C18_AdvertisedDelayReturned ==
  [][(pc = "robots" /\ robots.status = "ok") =>
       crawl_delay' = IF robots.advertised = -1 THEN CRAWL_DELAY
                      ELSE robots.advertised]_vars

ParentOf(u) == found[CHOOSE i \in DOMAIN found : found[i].url = u].parent

\* u and the pages over which u was found, up to the seed
RECURSIVE AncestorsOrSelf(_)
AncestorsOrSelf(u) ==
  IF u \notin FoundUrls THEN {u} ELSE {u} \cup AncestorsOrSelf(ParentOf(u))

\* C19: the traversal is depth-first.  A URL found while the page limit was
\* not yet reached is fetched before any other URL is found; URLs are
\* fetched in the order they were found, the seed first; and each URL is found on the
\* page of the URL found just before it or on a page that one was reached
\* over, so the anchors after l on page p wait until all that is reachable
\* from l has been explored.
C19_DepthFirst ==
  /\ \A k \in DOMAIN found :
       (k < Len(found) /\ k + 1 < max_pages) => found[k].url \in FetchedUrls
  /\ \A k \in DOMAIN found :
       k > 1 => found[k].parent \in AncestorsOrSelf(found[k - 1].url)
  /\ \A i \in DOMAIN fetchLog :
       IF i = 1 THEN fetchLog[i].url = SeedUrl ELSE fetchLog[i].url \in FoundUrls
  /\ \A i, j \in DOMAIN fetchLog :
       (i < j /\ i > 1) =>
         \E k, m \in DOMAIN found :
           k < m /\ found[k].url = fetchLog[i].url /\ found[m].url = fetchLog[j].url

\* /b, the first anchor of the seed page, was fetched and its own anchor
\* was found and fetched before /c, the second anchor of the seed page
C19_Witness ==
  /\ pc = "done"
  /\ site[SeedUrl] = <<hrefB, hrefC>>
  /\ Len(found) = 3
  /\ found[1] = [url |-> urlB, parent |-> SeedUrl]
  /\ found[2].parent = urlB
  /\ found[2].url \in FetchedUrls
  /\ found[3] = [url |-> urlC, parent |-> SeedUrl]

\* C20: a crawl issues at most max_pages - 1 page fetches (none when
\* max_pages is 1 or less): a fetch is only issued while the visited set
\* holds fewer than max_pages URLs, and of a URL that is in it.  The seed is
\* in the result whether or not it was fetched.
C20_FetchesBelowLimit ==
  /\ [](Crawling =>
          /\ Len(fetchLog) <= (IF max_pages >= 1 THEN max_pages - 1 ELSE 0)
          /\ FetchedUrls \subseteq visited
          /\ SeedUrl \in visited)
  /\ [](pc = "done" => SeedUrl \in sitemap.urls)
  /\ [][Len(fetchLog') > Len(fetchLog) =>
          /\ Cardinality(visited) < max_pages
          /\ fetchLog'[Len(fetchLog')].url \in visited]_vars

\* with max_pages = 1 the job is done, the seed page with its anchors was
\* never fetched, and the result is the seed
C20_Witness ==
  /\ pc = "done"
  /\ max_pages = 1
  /\ site[SeedUrl] # <<>>
  /\ fetchLog = <<>>
  /\ sitemap.urls = {SeedUrl}
====
